---- MODULE Spec2Model ----
(***************************************************************************)
(* A model of KeapClient (src/src/keap-client.ts): the constructor, the    *)
(* credential life cycle (ensureAuthenticated / authenticateApp /          *)
(* isTokenExpired), the request gateway (makeAuthenticatedRequest) and the *)
(* public operations built on them.                                        *)
(*                                                                         *)
(* Every async function is a frame on a per-caller stack.  A step resumes  *)
(* the top frame from the await it is suspended at and runs it, together   *)
(* with everything it calls synchronously, up to the next await.  The      *)
(* remote side (token endpoint, CRM) answers each request in flight with a *)
(* nondeterministically chosen response.                                   *)
(*                                                                         *)
(* Time is counted in whole seconds: Date.now() is `now`, and the code's   *)
(* millisecond quantities (all multiples of 1000) are divided by 1000.     *)
(***************************************************************************)
EXTENDS Integers, Sequences, FiniteSets, TLC

\* ------------------------------------------------------------------ bounds
MaxNow == 1
MaxEmails == 2
MaxContacts == 4
MaxBatchSize == 2
MaxBook == 2
MaxPages == 1
MaxDays == 366

\* ------------------------------------------------------- values of the code
Absent == "<absent>"          \* the key is not present in the object
Undefined == "<undefined>"    \* the key is present and holds undefined
Null == "<null>"
NoExpiry == -1                \* tokenExpiry: Date | null = null

Truthy(v) == v \notin {Absent, Undefined, Null, "", "false"}

BufferTime == 5 * 60                       \* bufferTime, in seconds
ServiceTokenLifetime == 365 * 24 * 60 * 60 \* "1 year", in seconds

DefaultEnvironment == "production"
DefaultAllowWrite == "false"
DefaultBaseUrl == "https://api.infusionsoft.com/crm/rest/v1"
TokenUrl == "https://api.infusionsoft.com/token"

\* The callers that may use one client.  `active` (set by Init) says which
\* of them run operations.
AllProcs == {1, 2}

Emails == {"a@x", "b@x"}
Tokens == {"tokA", "tokB"}
ExpiresIn == {300, 302}
\* The statuses the remote answers with; 0 stands for a request that fetch
\* rejects (no response at all).
TokenStatuses == {200, 401, 0}
CrmStatuses == {200, 401, 500, 0}
TagLists == {<<>>, <<"gold">>}
\* What the CRM also answers to the lookup of one contact by its id.
ByIdStatuses == {404, 429}
ContactIds == {1, 2}

Ok(status) == status >= 200 /\ status <= 299

\* Configurations handed to the constructor.
CredValues == {Absent, "", "v"}
EnvValues == {Absent, Undefined, "development", "staging", "production"}
WriteValues == {Absent, Undefined, "true", "false"}

Configs ==
  [serviceAccountToken : CredValues, clientId : CredValues,
   clientSecret : CredValues, environment : EnvValues, allowWrite : WriteValues]

\* The configurations the operations are explored under: both credential
\* modes, production (given and by default) and development, allowWrite
\* given as true and left out.
OpConfigs ==
  {c \in Configs :
     <<c.serviceAccountToken, c.clientId, c.clientSecret, c.environment,
       c.allowWrite>> \in
       {<<"v", Absent, Absent, Absent, Absent>>,
        <<"v", Absent, Absent, "development", "true">>,
        <<Absent, "v", "v", "production", "true">>}}

NoSupplied ==
  [serviceAccountToken |-> Absent, clientId |-> Absent, clientSecret |-> Absent,
   environment |-> Absent, allowWrite |-> Absent]

NoConfig ==
  [serviceAccountToken |-> Undefined, clientId |-> Undefined,
   clientSecret |-> Undefined, environment |-> Undefined,
   allowWrite |-> Undefined, baseUrl |-> Undefined]

VARIABLES
  ctor,         \* "none", "ok" (a client exists) or "threw"
  supplied,     \* the object handed to the constructor
  config,       \* this.config
  accessToken,  \* this.accessToken
  tokenExpiry,  \* this.tokenExpiry (seconds), NoExpiry for null
  now,          \* Date.now() (seconds)
  active,       \* the callers that run operations
  stack,        \* per caller: the suspended async frames, innermost last
  pend,         \* per caller: what the innermost frame is waiting for
  remote,       \* per caller: size of the remote contact collection it pages
  book,         \* the contacts of the remote collection, in the order the
                \* CRM lists them (empty where no operation reads them)
  result,       \* per caller: outcome of its last finished operation
  issued,       \* access_token of the last successful token response
  issuedExpiry, \* the time that response was received plus its expires_in
  ghost,        \* per caller: bookkeeping of the current guarded function
  opBad,        \* per caller: a request of its operation, to the token
                \* endpoint or to the CRM, was not answered with a 2xx
                \* response
  pureCall      \* a call of one of the synchronous helpers: its argument
                \* and, once it has run, what it returned

vars ==
  <<ctor, supplied, config, accessToken, tokenExpiry, now, active, stack,
    pend, remote, book, result, issued, issuedExpiry, ghost, opBad,
    pureCall>>

\* ------------------------------------------------------------- constructor
\* { defaults, ...config }: a key that is present overrides the default,
\* also when it holds undefined.
Spread(default, v) == IF v = Absent THEN default ELSE v

MergeConfig(c) ==
  [serviceAccountToken |-> Spread(Undefined, c.serviceAccountToken),
   clientId |-> Spread(Undefined, c.clientId),
   clientSecret |-> Spread(Undefined, c.clientSecret),
   environment |-> Spread(DefaultEnvironment, c.environment),
   allowWrite |-> Spread(DefaultAllowWrite, c.allowWrite),
   baseUrl |-> DefaultBaseUrl]

\* Mutant of ForceReadOnly: the production override is left out.
ForceReadOnlyMutant(c) == c

\* if (this.config.environment === 'production') this.config.allowWrite = false
ForceReadOnly(c) ==
  IF c.environment = "production" THEN [c EXCEPT !.allowWrite = "false"] ELSE c

\* Mutant of ConfigInvalid: only a missing clientId is noticed.
ConfigInvalidMutant(c) ==
  ~Truthy(c.serviceAccountToken) /\ ~Truthy(c.clientId)

\* !serviceAccountToken && (!clientId || !clientSecret)
ConfigInvalid(c) ==
  ~Truthy(c.serviceAccountToken) /\ (~Truthy(c.clientId) \/ ~Truthy(c.clientSecret))

ServiceMode == Truthy(config.serviceAccountToken)

\* --------------------------------------------------------- token life cycle
\* Mutant of isTokenExpired: the 5-minute buffer is compared strictly.
isTokenExpiredMutant(expiry, t) ==
  IF expiry = NoExpiry THEN TRUE ELSE expiry < t + BufferTime

isTokenExpired(expiry, t) ==
  IF expiry = NoExpiry THEN TRUE ELSE expiry <= t + BufferTime

isAuthenticated == Truthy(accessToken) /\ ~isTokenExpired(tokenExpiry, now)

getStatus ==
  [authenticated |-> isAuthenticated,
   environment |-> config.environment,
   readOnlyMode |-> ~Truthy(config.allowWrite),
   tokenExpiry |-> IF tokenExpiry = NoExpiry THEN Undefined ELSE ToString(tokenExpiry),
   baseUrl |-> config.baseUrl]

\* ------------------------------------------------- frames, requests, values
NoReq ==
  [kind |-> "none", url |-> "", method |-> "", body |-> Absent, bearer |-> "",
   path |-> "", email |-> "", limit |-> 0, offset |-> 0, id |-> 0]

TokenRequest ==
  [NoReq EXCEPT !.kind = "token", !.url = TokenUrl, !.method = "POST",
                !.body = "grant_type=client_credentials"]

\* The method option the callers of the gateway pass: the two lookups by
\* contact id pass no options at all, the others pass method: 'GET'.  None
\* passes a body.
MethodOption(path) ==
  IF path \in {"/contacts/{id}", "/contacts/{id}/tags"} THEN Absent ELSE "GET"

CrmRequest(path, email, limit, offset, id) ==
  [NoReq EXCEPT !.kind = "crm", !.url = DefaultBaseUrl,
                !.method = MethodOption(path),
                !.path = path, !.email = email, !.limit = limit,
                !.offset = offset, !.id = id]

Frame(fn, pc) ==
  [fn |-> fn, pc |-> pc, email |-> "", emails |-> <<>>, results |-> <<>>,
   found |-> 0, errors |-> 0, limit |-> 0, offset |-> 0, batchSize |-> 0,
   hasMore |-> FALSE, contact |-> 0, req |-> NoReq, nTok |-> 0, nCrm |-> 0,
   first401 |-> FALSE, reauthOk |-> FALSE, len |-> 0, yielded |-> <<>>,
   offsets |-> <<>>, contacts |-> <<>>, idx |-> 0, names |-> {},
   include |-> FALSE, tagMap |-> <<>>]

NoErr == [type |-> "none", status |-> 0]
Err(type, status) == [type |-> type, status |-> status]

Void == [t |-> "void"]
\* Summary of a finished call of the request gateway, handed to its caller
\* with the outcome: the requests it sent and how it ended.
NoGw ==
  [first401 |-> FALSE, reauthOk |-> FALSE, nTok |-> 0, nCrm |-> 0,
   status |-> 0, service |-> FALSE]

Idle == [k |-> "idle", v |-> Void, e |-> NoErr, req |-> NoReq, gw |-> NoGw]
Net(req) == [k |-> "net", v |-> Void, e |-> NoErr, req |-> req, gw |-> NoGw]
Ret(v) == [k |-> "ret", v |-> v, e |-> NoErr, req |-> NoReq, gw |-> NoGw]
Throw(e) == [k |-> "throw", v |-> Void, e |-> e, req |-> NoReq, gw |-> NoGw]
Yield(v) == [k |-> "yield", v |-> v, e |-> NoErr, req |-> NoReq, gw |-> NoGw]

\* What a call leaves behind when it reaches its first await: the frames it
\* pushed and what the innermost of them waits for.
Called(frames, p) == [frames |-> frames, pend |-> p]

NoResult == [op |-> "none", k |-> "none", v |-> Void, e |-> NoErr]
NoGhost ==
  [cred |-> "none", fresh |-> FALSE, crmSent |-> 0, ensureFail |-> 0,
   miss |-> FALSE, rejected |-> FALSE, tagFail |-> FALSE]

Top(p) == stack[p][Len(stack[p])]
Below(p) == SubSeq(stack[p], 1, Len(stack[p]) - 1)
Min(a, b) == IF a < b THEN a ELSE b

NoCall == [fn |-> "none", arg |-> <<>>, out |-> <<>>, done |-> FALSE]

\* ---------------------------------------------------------------- Init
\* The fields of a client that is not constructed yet, with the callers
\* that will use it.
InitWith(callers) ==
  /\ ctor = "none"
  /\ supplied = NoSupplied
  /\ config = NoConfig
  /\ accessToken = Null
  /\ tokenExpiry = NoExpiry
  /\ now = 0
  /\ active = callers
  /\ stack = [p \in AllProcs |-> <<>>]
  /\ pend = [p \in AllProcs |-> Idle]
  /\ remote = [p \in AllProcs |-> 0]
  /\ result = [p \in AllProcs |-> NoResult]
  /\ issued = Null
  /\ issuedExpiry = NoExpiry
  /\ ghost = [p \in AllProcs |-> NoGhost]
  /\ opBad = [p \in AllProcs |-> FALSE]

InitClient == InitWith({1})

Init == InitClient /\ pureCall = NoCall /\ book = <<>>

\* new KeapClient(c)
Construct(c) ==
  /\ ctor = "none"
  /\ supplied' = c
  /\ LET merged == ForceReadOnly(MergeConfig(c)) IN
       IF ConfigInvalid(merged)
         THEN /\ ctor' = "threw"
              /\ UNCHANGED <<config, accessToken, tokenExpiry>>
         ELSE /\ ctor' = "ok"
              /\ config' = merged
              /\ IF Truthy(merged.serviceAccountToken)
                   THEN /\ accessToken' = merged.serviceAccountToken
                        /\ tokenExpiry' = now + ServiceTokenLifetime
                   ELSE UNCHANGED <<accessToken, tokenExpiry>>
  /\ UNCHANGED <<pureCall, now, active, stack, pend, remote, book, result, issued, issuedExpiry,
                 ghost, opBad>>

\* The clock advances: while the client is idle or waits for the network
\* (resuming a frame whose awaited promise is settled takes no time).
Tick ==
  /\ now < MaxNow
  /\ \A p \in active : pend[p].k \in {"idle", "net", "yield"}
  /\ now' = now + 1
  /\ UNCHANGED <<pureCall, ctor, supplied, config, accessToken, tokenExpiry, active,
                 stack, pend, remote, book, result, issued, issuedExpiry, ghost, opBad>>

\* ------------------------------------------------------------ the remote
\* Answers of the token endpoint.
\* Every grant yields a token that differs from the one granted before.
TokenResponses ==
  {[status |-> 200, access_token |-> t, expires_in |-> x] :
     t \in Tokens \ {issued}, x \in ExpiresIn}
  \cup {[status |-> s, access_token |-> Undefined, expires_in |-> 0] :
          s \in TokenStatuses \ {200}}

\* Contacts offset+1 .. offset+limit of a collection of n contacts, the
\* contacts being numbered 1 .. n in the requested order.
Page(n, limit, offset) ==
  [i \in 1 .. (Min(offset + limit, n) - Min(offset, n)) |-> offset + i]

\* The tag collection of the CRM: its i-th tag, and the tags offset+1 ..
\* offset+limit of a collection of n tags.
TagIdBase == 100
TagNames == <<"gold", "silver", "bronze">>
KeapTag(i) == [id |-> TagIdBase + i, name |-> TagNames[(i % 3) + 1]]
TagPage(n, limit, offset) ==
  [i \in 1 .. (Min(offset + limit, n) - Min(offset, n)) |-> KeapTag(offset + i)]

Resp(status, contacts, tags, count) ==
  [t |-> "resp", status |-> status, contacts |-> contacts, tags |-> tags,
   count |-> count]

\* Answers of the CRM to a request of caller p.
CrmResponses(p, req) ==
  {Resp(s, <<>>, <<>>, 0) : s \in CrmStatuses \ {200}}
  \cup (IF req.path = "/contacts/{id}/tags" /\ req.id \in DOMAIN book
          THEN {Resp(200, <<>>, book[req.id].tags, 0)}
        ELSE IF req.path = "/contacts/{id}/tags"
          THEN {Resp(200, <<>>, tl, 0) : tl \in TagLists}
        ELSE IF req.path = "/contacts/{id}"
          THEN {Resp(200, <<req.id>>, <<>>, 0)}
                 \cup {Resp(st, <<>>, <<>>, 0) : st \in ByIdStatuses}
        ELSE IF req.path = "/tags"
          THEN {Resp(200, <<>>, TagPage(remote[p], req.limit, req.offset), 0)}
        ELSE IF req.email # ""
          THEN {Resp(200, <<>>, <<>>, 0), Resp(200, <<1>>, <<>>, 1)}
        ELSE {Resp(200, Page(remote[p], req.limit, req.offset), <<>>, remote[p])})

\* response.json(): the body of a 2xx response is the documented object; the
\* body of any other response may be JSON without the expected fields, or
\* no JSON at all (json() then throws).
ParseOutcomes(resp) == IF Ok(resp.status) THEN {"object"} ELSE {"object", "throws"}
DataContacts(resp) == IF Ok(resp.status) THEN resp.contacts ELSE <<>>
DataTags(resp) == IF Ok(resp.status) THEN resp.tags ELSE <<>>
DataCount(resp) == IF Ok(resp.status) THEN resp.count ELSE 0

\* ------------------------------------------------------------ call helpers
SetP(f, p, v) == [f EXCEPT ![p] = v]

Running(p) == ctor = "ok" /\ p \in active /\ stack[p] # <<>>
CanStart(p) == ctor = "ok" /\ p \in active /\ stack[p] = <<>>
Resumed(p, fn) == Running(p) /\ Top(p).fn = fn /\ pend[p].k \in {"ret", "throw"}
Answered(p, fn) == Running(p) /\ Top(p).fn = fn /\ pend[p].k = "net"

SendsCrm(pd) == pd.k = "net" /\ pd.req.kind = "crm"

\* The top frame of p completes with `out`; the operation ends when it was
\* the only frame.
Finish(p, out) ==
  IF Below(p) = <<>>
    THEN /\ stack' = SetP(stack, p, <<>>)
         /\ pend' = SetP(pend, p, Idle)
         /\ result' = SetP(result, p,
              [op |-> Top(p).fn, k |-> out.k, v |-> out.v, e |-> out.e])
    ELSE /\ stack' = SetP(stack, p, Below(p))
         /\ pend' = SetP(pend, p, out)
         /\ UNCHANGED result

\* The top frame of p is replaced by the frames of `called` (its own, moved
\* on to its next await, first) and awaits what it called.
Suspend(p, called) ==
  /\ stack' = SetP(stack, p, Below(p) \o called.frames)
  /\ pend' = SetP(pend, p, called.pend)
  /\ UNCHANGED result

\* A top-level operation of p starts and runs to its first await; the remote
\* contact collection holds n contacts while it runs.
Begin(p, called, n) ==
  /\ remote' = SetP(remote, p, n)
  /\ stack' = SetP(stack, p, called.frames)
  /\ pend' = SetP(pend, p, called.pend)
  /\ result' = SetP(result, p, NoResult)
  /\ opBad' = SetP(opBad, p, FALSE)

\* The bookkeeping of a function that starts now: whether the credential it
\* finds is missing ("none"), within five minutes of its expiry ("expired")
\* or neither ("valid"); whether a token was obtained since (fresh); whether a CRM
\* request was sent since (crmSent, 0 or 1); the status the token endpoint refused its
\* opening ensureAuthenticated with (ensureFail); whether the CRM answered its
\* contact lookup with a 2xx response holding no contact (miss); whether the
\* token endpoint answered one of its token requests, the opening one or one
\* of a 401 path, with a non-2xx response (rejected); whether its latest
\* fetch of a contact's tags failed: the request threw, or was answered
\* with a non-2xx response (tagFail).
NewGhost ==
  [NoGhost EXCEPT !.cred = IF accessToken = Null \/ tokenExpiry = NoExpiry
                             THEN "none"
                           ELSE IF tokenExpiry - now <= 300 THEN "expired"
                           ELSE "valid"]

\* opBad after caller p received a response with this status.
BadAfter(p, status) ==
  \/ opBad[p]
  \/ ~Ok(status)

CountSend(g, pd) == IF SendsCrm(pd) THEN [g EXCEPT !.crmSent = 1] ELSE g

\* ------------------------------------------------- ensureAuthenticated etc.
\* authenticateApp up to its await of the token request.
authenticateApp ==
  IF ~Truthy(config.clientId) \/ ~Truthy(config.clientSecret)
    THEN Called(<<>>, Throw(Err("creds", 0)))
    ELSE Called(<<Frame("authenticateApp", "token")>>, Net(TokenRequest))

\* Mutant of NeedsToken: every ensureAuthenticated asks for a new token.
NeedsTokenMutant(tok, expiry, t) == TRUE

\* !this.accessToken || this.isTokenExpired()
NeedsToken(tok, expiry, t) == ~Truthy(tok) \/ isTokenExpired(expiry, t)

\* if (this.config.serviceAccountToken) return;
SkipsAuthentication == ServiceMode

\* ensureAuthenticated, called while this.accessToken is tok, up to its
\* first await.
ensureAuthenticated(tok) ==
  IF SkipsAuthentication THEN Called(<<>>, Ret(Void))
  ELSE IF NeedsToken(tok, tokenExpiry, now) THEN authenticateApp
  ELSE Called(<<>>, Ret(Void))

\* Mutant of StoredToken: the new access_token is dropped, the old one kept.
StoredTokenMutant(r) == IF Truthy(accessToken) THEN accessToken ELSE r.access_token

\* this.accessToken = tokenData.access_token
StoredToken(r) == r.access_token

\* authenticateApp resumes with the answer of the token endpoint.
AuthenticateAppResponse(p, r) ==
  /\ Answered(p, "authenticateApp")
  /\ opBad' = SetP(opBad, p, BadAfter(p, r.status))
  /\ IF r.status = 0
       THEN /\ Finish(p, Throw(Err("net", 0)))
            /\ UNCHANGED <<accessToken, tokenExpiry, issued, issuedExpiry, ghost>>
     ELSE IF ~Ok(r.status)
       THEN /\ Finish(p, Throw(Err("auth", r.status)))
            /\ ghost' = SetP(ghost, p, [ghost[p] EXCEPT !.rejected = TRUE])
            /\ UNCHANGED <<accessToken, tokenExpiry, issued, issuedExpiry>>
     ELSE /\ accessToken' = StoredToken(r)
          /\ tokenExpiry' = now + r.expires_in
          /\ issued' = r.access_token
          /\ issuedExpiry' = now + r.expires_in
          /\ ghost' = SetP(ghost, p, [ghost[p] EXCEPT !.fresh = TRUE])
          /\ Finish(p, Ret(Void))
  /\ UNCHANGED <<pureCall, ctor, supplied, config, now, active, remote, book>>

\* --------------------------------------------------------- request gateway
\* makeAuthenticatedRequest(req) up to its await of the first response.
\* Mutant of DefaultMethod: a request without a method option is a POST.
DefaultMethodMutant == "POST"

\* method: options.method || 'GET'
DefaultMethod == "GET"

\* The request the gateway hands to makeRequest for the options `req`, with
\* the token held now as bearer.
Sent(req) ==
  [req EXCEPT !.method = IF Truthy(@) THEN @ ELSE DefaultMethod,
              !.url = config.baseUrl,
              !.bearer = accessToken]

makeAuthenticatedRequest(req) ==
  IF ~Truthy(accessToken)
    THEN Called(<<>>, Throw(Err("notauth", 0)))
    ELSE Called(<<[Frame("makeAuthenticatedRequest", "first") EXCEPT
                     !.req = req, !.nCrm = 1]>>,
                Net(Sent(req)))

\* The outcome `out` of the gateway frame f, with the summary of the call.
GwDone(f, out, status) ==
  [out EXCEPT !.gw = [first401 |-> f.first401, reauthOk |-> f.reauthOk,
                      nTok |-> f.nTok, nCrm |-> f.nCrm, status |-> status,
                      service |-> ServiceMode]]

\* Mutant of FailsOn401: a service-account client refreshes and retries too.
FailsOn401Mutant == FALSE

\* if (this.config.serviceAccountToken) throw ... on a 401
FailsOn401 == ServiceMode

\* Mutant of InvalidatedToken: the rejected token is kept.
InvalidatedTokenMutant == accessToken

\* this.accessToken = null, before the re-authentication of the 401 path
InvalidatedToken == Null

\* Mutant of FirstOutcome: a non-2xx first response is returned, not thrown.
FirstOutcomeMutant(r) == Ret(r)

\* if (!response.ok) throw new Error(`Keap API error: ...`); return response
FirstOutcome(r) == IF ~Ok(r.status) THEN Throw(Err("api", r.status)) ELSE Ret(r)

\* The gateway resumes with the answer to its first request.
GatewayResponse(p, r) ==
  /\ Answered(p, "makeAuthenticatedRequest")
  /\ Top(p).pc = "first"
  /\ opBad' = SetP(opBad, p, BadAfter(p, r.status))
  /\ IF r.status = 0
       THEN /\ Finish(p, GwDone(Top(p), Throw(Err("net", 0)), 0))
            /\ UNCHANGED accessToken
     ELSE IF r.status = 401 /\ FailsOn401
       THEN /\ Finish(p, GwDone([Top(p) EXCEPT !.first401 = TRUE],
                                Throw(Err("svc", r.status)), r.status))
            /\ UNCHANGED accessToken
     ELSE IF r.status = 401
       THEN LET c == ensureAuthenticated(InvalidatedToken)
                f == [Top(p) EXCEPT !.pc = "reauth", !.first401 = TRUE,
                        !.nTok = IF c.pend.k = "net" THEN 1 ELSE 0]
            IN /\ accessToken' = InvalidatedToken
               /\ Suspend(p, Called(<<f>> \o c.frames, c.pend))
     ELSE /\ Finish(p, GwDone(Top(p), FirstOutcome(r), r.status))
          /\ UNCHANGED accessToken
  /\ UNCHANGED <<pureCall, ctor, supplied, config, tokenExpiry, now, active, remote, book,
                 issued, issuedExpiry, ghost>>

\* The gateway resumes after the re-authentication of its 401 path: the
\* request is sent again with the token held now, or the failure propagates.
GatewayAfterReauth(p) ==
  /\ Resumed(p, "makeAuthenticatedRequest")
  /\ Top(p).pc = "reauth"
  /\ IF pend[p].k = "throw"
       THEN /\ Finish(p, GwDone(Top(p), Throw(pend[p].e), 0))
            /\ UNCHANGED ghost
       ELSE LET rq == Sent(Top(p).req)
                f == [Top(p) EXCEPT !.pc = "retry", !.reauthOk = TRUE,
                                    !.nCrm = @ + 1]
            IN /\ Suspend(p, Called(<<f>>, Net(rq)))
               /\ ghost' = SetP(ghost, p, CountSend(ghost[p], Net(rq)))
  /\ UNCHANGED <<pureCall, ctor, supplied, config, accessToken, tokenExpiry, now, active,
                 remote, book, issued, issuedExpiry, opBad>>

\* The gateway resumes with the answer to the retried request, which it
\* returns as it is: `return this.makeRequest(url, ...)`.
GatewayRetryResponse(p, r) ==
  /\ Answered(p, "makeAuthenticatedRequest")
  /\ Top(p).pc = "retry"
  /\ opBad' = SetP(opBad, p, BadAfter(p, r.status))
  /\ Finish(p, GwDone(Top(p), IF r.status = 0 THEN Throw(Err("net", 0)) ELSE Ret(r),
                      r.status))
  /\ UNCHANGED <<pureCall, ctor, supplied, config, accessToken, tokenExpiry, now, active,
                 remote, book, issued, issuedExpiry, ghost>>

\* ----------------------------------------------------- values of results
NullV == [t |-> "null"]
ContactV(id) == [t |-> "contact", id |-> id]
TagsV(tags) == [t |-> "tags", tags |-> tags]
EntV(id, email, tags) ==
  [t |-> "ent", contactId |-> id, email |-> email, tags |-> tags]
PageV(contacts, count) == [t |-> "page", contacts |-> contacts, count |-> count]
BatchV(request, results, total, found, errors) ==
  [t |-> "batch", request |-> request, results |-> results,
   summary |-> [total |-> total, found |-> found, errors |-> errors]]
StreamV(batchSize, yielded, offsets) ==
  [t |-> "stream", batchSize |-> batchSize, yielded |-> yielded,
   offsets |-> offsets]

\* A function that starts with `await this.ensureAuthenticated()` resumes
\* from it with a failure: note what the token endpoint answered.
NoteEnsure(g, pd) ==
  IF pd.k = "throw" /\ pd.e.type = "auth" THEN [g EXCEPT !.ensureFail = pd.e.status]
  ELSE g

\* ------------------------------------------------------ findContactByEmail
findContactByEmail(email) ==
  LET g == makeAuthenticatedRequest(CrmRequest("/contacts", email, 1, 0, 0))
  IN Called(<<Frame("findContactByEmail", "req")>> \o g.frames, g.pend)

\* contacts && contacts.length > 0 ? contacts[0] : null
FirstContact(contacts) ==
  IF Len(contacts) > 0 THEN ContactV(contacts[1]) ELSE NullV

FindContactByEmailResume(p, parse) ==
  /\ Resumed(p, "findContactByEmail")
  /\ IF pend[p].k = "throw" THEN Finish(p, Throw(pend[p].e)) /\ UNCHANGED ghost
     ELSE /\ parse \in ParseOutcomes(pend[p].v)
          /\ IF parse = "throws" THEN Finish(p, Throw(Err("syntax", 0)))
             ELSE Finish(p, Ret(FirstContact(DataContacts(pend[p].v))))
          /\ ghost' = SetP(ghost, p,
               [ghost[p] EXCEPT !.miss = /\ Ok(pend[p].v.status)
                                         /\ pend[p].v.contacts = <<>>])
  /\ UNCHANGED <<pureCall, ctor, supplied, config, accessToken, tokenExpiry, now, active,
                 remote, book, issued, issuedExpiry, opBad>>

\* ----------------------------------------------- getContactTagsWithDetails
getContactTagsWithDetails(id) ==
  LET g == makeAuthenticatedRequest(CrmRequest("/contacts/{id}/tags", "", 0, 0, id))
  IN Called(<<[Frame("getContactTagsWithDetails", "req") EXCEPT !.contact = id]>>
              \o g.frames, g.pend)

\* try { ... return data.tags || [] } catch { return [] }
\* Mutant of TagsCaught: the failure goes on to the caller.
TagsCaughtMutant(e) == Throw(e)

\* catch (error) { console.warn(...); return [] }
TagsCaught(e) == Ret(TagsV(<<>>))

GetContactTagsWithDetailsResume(p, parse) ==
  /\ Resumed(p, "getContactTagsWithDetails")
  /\ IF pend[p].k = "throw" THEN Finish(p, TagsCaught(pend[p].e))
     ELSE /\ parse \in ParseOutcomes(pend[p].v)
          /\ IF parse = "throws" THEN Finish(p, TagsCaught(Err("syntax", 0)))
             ELSE Finish(p, Ret(TagsV(DataTags(pend[p].v))))
  /\ ghost' = SetP(ghost, p,
       [ghost[p] EXCEPT !.tagFail = \/ pend[p].k = "throw"
                                    \/ ~Ok(pend[p].v.status)
                                    \/ parse = "throws"])
  /\ UNCHANGED <<pureCall, ctor, supplied, config, accessToken, tokenExpiry, now, active,
                 remote, book, issued, issuedExpiry, opBad>>

\* ----------------------------------------------------- getUserEntitlements
getUserEntitlements(email) ==
  LET c == ensureAuthenticated(accessToken)
  IN Called(<<[Frame("getUserEntitlements", "ensure") EXCEPT !.email = email]>>
              \o c.frames, c.pend)

StartGetUserEntitlements(p, email) ==
  /\ CanStart(p)
  /\ Begin(p, getUserEntitlements(email), 0)
  /\ ghost' = SetP(ghost, p, NewGhost)
  /\ UNCHANGED <<pureCall, ctor, supplied, config, accessToken, tokenExpiry, now, active,
                 book, issued, issuedExpiry>>

\* Mutant of NotFoundOutcome: a missing contact is raised as an error.
NotFoundOutcomeMutant == Throw(Err("notfound", 0))

\* if (!contact) return null
NotFoundOutcome == Ret(NullV)

GetUserEntitlementsResume(p) ==
  /\ Resumed(p, "getUserEntitlements")
  /\ LET f == Top(p) IN
     IF f.pc = "ensure"
       THEN IF pend[p].k = "throw"
              THEN /\ Finish(p, Throw(pend[p].e))
                   /\ ghost' = SetP(ghost, p, NoteEnsure(ghost[p], pend[p]))
              ELSE LET c == findContactByEmail(f.email)
                   IN /\ Suspend(p, Called(<<[f EXCEPT !.pc = "find"]>> \o c.frames, c.pend))
                      /\ ghost' = SetP(ghost, p, CountSend(ghost[p], c.pend))
     ELSE IF f.pc = "find"
       THEN IF pend[p].k = "throw"
              THEN Finish(p, Throw(pend[p].e)) /\ UNCHANGED ghost
            ELSE IF pend[p].v.t = "null"
              THEN Finish(p, NotFoundOutcome) /\ UNCHANGED ghost
            ELSE LET c == getContactTagsWithDetails(pend[p].v.id)
                 IN /\ Suspend(p, Called(<<[f EXCEPT !.pc = "tags",
                                              !.contact = pend[p].v.id]>>
                                          \o c.frames, c.pend))
                    /\ ghost' = SetP(ghost, p, CountSend(ghost[p], c.pend))
     ELSE /\ f.pc = "tags"
          /\ IF pend[p].k = "throw" THEN Finish(p, Throw(pend[p].e))
             ELSE Finish(p, Ret(EntV(f.contact, f.email, pend[p].v.tags)))
          /\ UNCHANGED ghost
  /\ UNCHANGED <<pureCall, ctor, supplied, config, accessToken, tokenExpiry, now, active,
                 remote, book, issued, issuedExpiry, opBad>>

\* ---------------------------------------------------------- getContactById
getContactById(id) ==
  LET c == ensureAuthenticated(accessToken)
  IN Called(<<[Frame("getContactById", "ensure") EXCEPT !.contact = id]>>
              \o c.frames, c.pend)

StartGetContactById(p, id) ==
  /\ CanStart(p)
  /\ Begin(p, getContactById(id), 0)
  /\ ghost' = SetP(ghost, p, NewGhost)
  /\ UNCHANGED <<pureCall, ctor, supplied, config, accessToken, tokenExpiry, now, active,
                 book, issued, issuedExpiry>>

\* The rest of the try block once the gateway has returned response r:
\* 404 returns null, any other non-2xx response throws into the catch (which
\* returns null), a 2xx response returns response.json().
\* catch (error) { ...; return null }
ByIdCaught(e) == Ret(NullV)

ByIdOutcome(r) ==
  IF ~Ok(r.status)
    THEN IF r.status = 404 THEN Ret(NullV)
         ELSE ByIdCaught(Err("Failed to get contact", r.status))
    ELSE Ret(ContactV(r.contacts[1]))

GetContactByIdResume(p) ==
  /\ Resumed(p, "getContactById")
  /\ LET f == Top(p) IN
     IF f.pc = "ensure"
       THEN IF pend[p].k = "throw"
              THEN /\ Finish(p, Throw(pend[p].e))
                   /\ ghost' = SetP(ghost, p, NoteEnsure(ghost[p], pend[p]))
              ELSE LET c == makeAuthenticatedRequest(
                              CrmRequest("/contacts/{id}", "", 0, 0, f.contact))
                   IN /\ Suspend(p, Called(<<[f EXCEPT !.pc = "req"]>> \o c.frames, c.pend))
                      /\ ghost' = SetP(ghost, p, CountSend(ghost[p], c.pend))
     ELSE /\ f.pc = "req"
          /\ IF pend[p].k = "throw" THEN Finish(p, ByIdCaught(pend[p].e))
             ELSE Finish(p, ByIdOutcome(pend[p].v))
          /\ UNCHANGED ghost
  /\ UNCHANGED <<pureCall, ctor, supplied, config, accessToken, tokenExpiry, now, active,
                 remote, book, issued, issuedExpiry, opBad>>

\* ---------------------------------------------------- getBatchEntitlements
\* The requests explored: the lists a@x, b@x, a@x, ... of every length up to
\* MaxEmails, and the list that holds a@x twice.
EmailAt(i) == IF i % 2 = 1 THEN "a@x" ELSE "b@x"
EmailLists ==
  {[i \in 1 .. n |-> EmailAt(i)] : n \in 0 .. MaxEmails}
    \cup {<<"a@x", "a@x">>}

\* Mutant of FoundAfter: every entry without an error counts as found.
FoundAfterMutant(found, v) == found + 1

\* if (entitlements) found++
FoundAfter(found, v) == IF v.t = "ent" THEN found + 1 ELSE found

\* Mutant of BatchEntry: every entry is filed under the first email.
BatchEntryMutant(email, pd) ==
  [email |-> "a@x",
   entitlements |-> IF pd.k = "throw" THEN NullV ELSE pd.v,
   error |-> pd.e]

\* results.push({ email, entitlements }) / the catch branch of the loop body
BatchEntry(email, pd) ==
  IF pd.k = "throw"
    THEN [email |-> email, entitlements |-> NullV, error |-> pd.e]
    ELSE [email |-> email, entitlements |-> pd.v, error |-> NoErr]

StartGetBatchEntitlements(p, emails) ==
  /\ CanStart(p)
  /\ LET f == [Frame("getBatchEntitlements", "item") EXCEPT !.emails = emails]
     IN IF emails = <<>>
          THEN /\ stack' = SetP(stack, p, <<>>)
               /\ pend' = SetP(pend, p, Idle)
               /\ result' = SetP(result, p,
                    [op |-> "getBatchEntitlements", k |-> "ret",
                     v |-> BatchV(emails, <<>>, 0, 0, 0), e |-> NoErr])
               /\ opBad' = SetP(opBad, p, FALSE)
               /\ remote' = SetP(remote, p, 0)
          ELSE LET c == getUserEntitlements(emails[1])
               IN Begin(p, Called(<<f>> \o c.frames, c.pend), 0)
  /\ ghost' = SetP(ghost, p, NewGhost)
  /\ UNCHANGED <<pureCall, ctor, supplied, config, accessToken, tokenExpiry, now, active,
                 book, issued, issuedExpiry>>

\* The loop of getBatchEntitlements resumes with the outcome of one email.
GetBatchEntitlementsResume(p) ==
  /\ Resumed(p, "getBatchEntitlements")
  /\ LET f == Top(p)
         i == Len(f.results) + 1
         g == [f EXCEPT
                 !.results = Append(@, BatchEntry(f.emails[i], pend[p])),
                 !.found = IF pend[p].k = "ret" THEN FoundAfter(@, pend[p].v) ELSE @,
                 !.errors = IF pend[p].k = "throw" THEN @ + 1 ELSE @]
     IN IF i < Len(f.emails)
          THEN LET c == getUserEntitlements(f.emails[i + 1])
               IN /\ Suspend(p, Called(<<g>> \o c.frames, c.pend))
                  /\ ghost' = SetP(ghost, p, NewGhost)
          ELSE /\ Finish(p, Ret(BatchV(f.emails, g.results, Len(f.emails), g.found,
                                    g.errors)))
               /\ UNCHANGED ghost
  /\ UNCHANGED <<pureCall, ctor, supplied, config, accessToken, tokenExpiry, now, active,
                 remote, book, issued, issuedExpiry, opBad>>

\* -------------------------------------------------------------- getContacts
DefaultLimit == 200
DefaultOffset == 0

\* const { limit = 200, offset = 0, ... } = options: an option is <<v>> when
\* the caller gives it and <<>> when it is left out.
Option(default, o) == IF o = <<>> THEN default ELSE o[1]

getContacts(limit, offset) ==
  LET c == ensureAuthenticated(accessToken)
  IN Called(<<[Frame("getContacts", "ensure") EXCEPT
                 !.limit = Option(DefaultLimit, limit),
                 !.offset = Option(DefaultOffset, offset)]>> \o c.frames, c.pend)

\* count: data.count || (data.contacts?.length ?? 0)
ReportedCount(resp) ==
  IF DataCount(resp) # 0 THEN DataCount(resp) ELSE Len(DataContacts(resp))

StartGetContacts(p, limit, offset, n) ==
  /\ CanStart(p)
  /\ Begin(p, getContacts(limit, offset), n)
  /\ ghost' = SetP(ghost, p, NewGhost)
  /\ UNCHANGED <<pureCall, ctor, supplied, config, accessToken, tokenExpiry, now, active,
                 book, issued, issuedExpiry>>

GetContactsResume(p, parse) ==
  /\ Resumed(p, "getContacts")
  /\ LET f == Top(p) IN
     IF f.pc = "ensure"
       THEN IF pend[p].k = "throw"
              THEN /\ Finish(p, Throw(pend[p].e))
                   /\ ghost' = SetP(ghost, p, NoteEnsure(ghost[p], pend[p]))
              ELSE LET c == makeAuthenticatedRequest(
                              CrmRequest("/contacts", "", f.limit, f.offset, 0))
                   IN /\ Suspend(p, Called(<<[f EXCEPT !.pc = "req"]>> \o c.frames, c.pend))
                      /\ ghost' = SetP(ghost, p, CountSend(ghost[p], c.pend))
     ELSE /\ f.pc = "req"
          /\ IF pend[p].k = "throw" THEN Finish(p, Throw(pend[p].e))
             ELSE /\ parse \in ParseOutcomes(pend[p].v)
                  /\ IF parse = "throws" THEN Finish(p, Throw(Err("syntax", 0)))
                     ELSE Finish(p, Ret(PageV(DataContacts(pend[p].v),
                                              ReportedCount(pend[p].v))))
          /\ UNCHANGED ghost
  /\ UNCHANGED <<pureCall, ctor, supplied, config, accessToken, tokenExpiry, now, active,
                 remote, book, issued, issuedExpiry, opBad>>

\* ------------------------------------------------ fetchAllContactsPaginated
\* Mutant of HasMore: the loop goes on after every page that is not empty.
HasMoreMutant(len, batchSize) == len > 0

\* hasMore = result.contacts.length === batchSize
HasMore(len, batchSize) == len = batchSize

\* The generator asks for the page at f.offset (the body of its while loop up
\* to the await), or finishes when hasMore is false.
PaginatedLoop(p, f) ==
  IF f.hasMore
    THEN LET c == getContacts(<<f.batchSize>>, <<f.offset>>)
         IN /\ Suspend(p, Called(<<[f EXCEPT !.pc = "page",
                                       !.offsets = Append(@, f.offset)]>>
                                   \o c.frames, c.pend))
            /\ ghost' = SetP(ghost, p, NewGhost)
    ELSE /\ Finish(p, Ret(StreamV(f.batchSize, f.yielded, f.offsets)))
         /\ UNCHANGED ghost

\* The consumer creates the generator and asks for its first batch.
StartFetchAllContactsPaginated(p, batchSize, n) ==
  /\ CanStart(p)
  /\ LET f == [Frame("fetchAllContactsPaginated", "page") EXCEPT
                 !.batchSize = Option(DefaultLimit, batchSize), !.offset = 0,
                 !.hasMore = TRUE, !.offsets = <<0>>]
         c == getContacts(<<f.batchSize>>, <<f.offset>>)
     IN Begin(p, Called(<<f>> \o c.frames, c.pend), n)
  /\ ghost' = SetP(ghost, p, NewGhost)
  /\ UNCHANGED <<pureCall, ctor, supplied, config, accessToken, tokenExpiry, now, active,
                 book, issued, issuedExpiry>>

\* The generator resumes with a page: it yields a page that is not empty,
\* and goes round its loop otherwise.
FetchAllContactsPaginatedResume(p) ==
  /\ Resumed(p, "fetchAllContactsPaginated")
  /\ LET f == Top(p) IN
     IF pend[p].k = "throw"
       THEN Finish(p, Throw(pend[p].e)) /\ UNCHANGED ghost
     ELSE LET page == pend[p].v.contacts IN
          IF Len(page) > 0
            THEN /\ Suspend(p, Called(<<[f EXCEPT !.pc = "yield",
                                           !.len = Len(page),
                                           !.yielded = Append(@, page)]>>,
                                      Yield(pend[p].v)))
                 /\ UNCHANGED ghost
            ELSE PaginatedLoop(p, [f EXCEPT !.hasMore = HasMore(0, f.batchSize)])
  /\ UNCHANGED <<pureCall, ctor, supplied, config, accessToken, tokenExpiry, now, active,
                 remote, book, issued, issuedExpiry, opBad>>

\* The consumer asks for the next batch: the generator resumes after its
\* yield.
FetchAllContactsPaginatedNext(p) ==
  /\ Running(p)
  /\ Top(p).fn = "fetchAllContactsPaginated"
  /\ pend[p].k = "yield"
  /\ LET f == Top(p)
     IN PaginatedLoop(p, [f EXCEPT !.offset = @ + f.len,
                                   !.hasMore = HasMore(f.len, f.batchSize)])
  /\ UNCHANGED <<pureCall, ctor, supplied, config, accessToken, tokenExpiry, now, active,
                 remote, book, issued, issuedExpiry, opBad>>

\* ------------------------------------------------------ extractPrimaryEmail
EmailEntry(email, field) == [email |-> email, field |-> field]

\* Mutant of FindPrimary: the last EMAIL1 entry is taken, not the first.
FindPrimaryMutant(ea) ==
  LET S == {i \in DOMAIN ea : ea[i].field = "EMAIL1"}
  IN IF S = {} THEN 0 ELSE CHOOSE i \in S : \A j \in S : j <= i

\* email_addresses.find(ea => ea.field === 'EMAIL1'): the index of the entry
\* found, 0 when there is none.
FindPrimary(ea) ==
  LET S == {i \in DOMAIN ea : ea[i].field = "EMAIL1"}
  IN IF S = {} THEN 0 ELSE CHOOSE i \in S : \A j \in S : i <= j

extractPrimaryEmail(contact) ==
  LET ea == contact.email_addresses
  IN IF Len(ea) = 0 THEN Null
     ELSE IF FindPrimary(ea) # 0 THEN ea[FindPrimary(ea)].email
     ELSE IF Truthy(ea[1].email) THEN ea[1].email
     ELSE Null

\* ------------------------------------------------------- getAllEntitlements
\* The contacts the remote collection is made of: what the CRM lists as
\* their email addresses, and the names of the tags it holds for them.
RemoteContact(ea, tags) == [email_addresses |-> ea, tags |-> tags]

ContactShapes ==
  {RemoteContact(<<>>, <<"gold">>),
   RemoteContact(<<EmailEntry("a@x", "EMAIL1")>>, <<>>),
   RemoteContact(<<EmailEntry("b@x", "EMAIL2")>>, <<"gold">>),
   RemoteContact(<<EmailEntry("b@x", "EMAIL2"), EmailEntry("c@x", "EMAIL1"),
                   EmailEntry("a@x", "EMAIL1")>>, <<"silver", "gold">>),
   RemoteContact(<<EmailEntry("", "EMAIL1"), EmailEntry("b@x", "EMAIL2")>>,
                 <<"gold">>),
   RemoteContact(<<EmailEntry("", "EMAIL2"), EmailEntry("b@x", "EMAIL3")>>,
                 <<"silver">>)}

Books == UNION {[1 .. n -> ContactShapes] : n \in 0 .. MaxBook}

DefaultAllLimit == 100

\* Array.from(names).sort(): the names in ascending order of their UTF-16
\* code units.
NameOrder == <<"gold", "silver">>
SortNames(names) == SelectSeq(NameOrder, LAMBDA x : x \in names)

Range(seq) == {seq[i] : i \in DOMAIN seq}

ContactsV(contacts) == [t |-> "contacts", contacts |-> contacts]
AllV(f) ==
  [t |-> "all", entitlements |-> f.results,
   summary |-> [totalContacts |-> Len(f.contacts),
                contactsWithTags |-> f.found,
                totalUniqueEntitlements |-> Cardinality(f.names)],
   availableEntitlements |-> SortNames(f.names),
   limit |-> f.limit, include |-> f.include]

\* getAllContacts(limit): getContacts({ limit }), then result.contacts
getAllContacts(limit) ==
  LET c == getContacts(<<limit>>, <<>>)
  IN Called(<<Frame("getAllContacts", "page")>> \o c.frames, c.pend)

GetAllContactsResume(p) ==
  /\ Resumed(p, "getAllContacts")
  /\ IF pend[p].k = "throw" THEN Finish(p, Throw(pend[p].e))
     ELSE Finish(p, Ret(ContactsV(pend[p].v.contacts)))
  /\ UNCHANGED <<pureCall, ctor, supplied, config, accessToken, tokenExpiry,
                 now, active, remote, book, issued, issuedExpiry, ghost, opBad>>

getAllEntitlements(limit, include) ==
  LET c == ensureAuthenticated(accessToken)
  IN Called(<<[Frame("getAllEntitlements", "ensure") EXCEPT
                 !.limit = Option(DefaultAllLimit, limit),
                 !.include = Option(FALSE, include)]>> \o c.frames, c.pend)

StartGetAllEntitlements(p, limit, include) ==
  /\ CanStart(p)
  /\ Begin(p, getAllEntitlements(limit, include), Len(book))
  /\ ghost' = SetP(ghost, p, NewGhost)
  /\ UNCHANGED <<pureCall, ctor, supplied, config, accessToken, tokenExpiry,
                 now, active, book, issued, issuedExpiry>>

\* const email = this.extractPrimaryEmail(contact); if (!email) continue
SkipsContact(contact) == ~Truthy(extractPrimaryEmail(contact))

\* The index of the first contact from index i on that is not skipped, or
\* Len(contacts) + 1.
RECURSIVE NextWithEmail(_, _)
NextWithEmail(contacts, i) ==
  IF i > Len(contacts) THEN i
  ELSE IF SkipsContact(book[contacts[i]]) THEN NextWithEmail(contacts, i + 1)
  ELSE i

\* The for loop from contact f.idx on, up to the await of the tags of the
\* next contact that has an email, or to the return.
AllLoop(p, f) ==
  LET j == NextWithEmail(f.contacts, f.idx)
  IN IF j <= Len(f.contacts)
       THEN LET c == getContactTagsWithDetails(f.contacts[j])
            IN /\ Suspend(p, Called(<<[f EXCEPT !.pc = "tags", !.idx = j]>>
                                      \o c.frames, c.pend))
               /\ ghost' = SetP(ghost, p, CountSend(ghost[p], c.pend))
       ELSE /\ Finish(p, Ret(AllV(f)))
            /\ UNCHANGED ghost

\* if (tags.length > 0 || includeContactsWithoutTags)
KeepsEntitlement(tags, include) == Len(tags) > 0 \/ include

\* The rest of the loop body for contact f.idx, whose tags have arrived.
AfterTags(f, tags) ==
  LET id == f.contacts[f.idx]
      e == EntV(id, extractPrimaryEmail(book[id]), tags)
  IN [f EXCEPT
        !.names = @ \cup Range(tags),
        !.results = IF KeepsEntitlement(tags, f.include) THEN Append(@, e) ELSE @,
        !.found = IF KeepsEntitlement(tags, f.include) /\ Len(tags) > 0
                    THEN @ + 1 ELSE @,
        !.idx = @ + 1]

GetAllEntitlementsResume(p) ==
  /\ Resumed(p, "getAllEntitlements")
  /\ LET f == Top(p) IN
     IF f.pc = "ensure"
       THEN IF pend[p].k = "throw"
              THEN /\ Finish(p, Throw(pend[p].e))
                   /\ ghost' = SetP(ghost, p, NoteEnsure(ghost[p], pend[p]))
              ELSE LET c == getAllContacts(f.limit)
                   IN /\ Suspend(p, Called(<<[f EXCEPT !.pc = "contacts"]>>
                                             \o c.frames, c.pend))
                      /\ ghost' = SetP(ghost, p, NewGhost)
     ELSE IF f.pc = "contacts"
       THEN IF pend[p].k = "throw"
              THEN Finish(p, Throw(pend[p].e)) /\ UNCHANGED ghost
              ELSE AllLoop(p, [f EXCEPT !.contacts = pend[p].v.contacts,
                                        !.idx = 1])
     ELSE /\ f.pc = "tags"
          /\ IF pend[p].k = "throw"
               THEN AllLoop(p, [f EXCEPT !.idx = @ + 1])
               ELSE AllLoop(p, AfterTags(f, pend[p].v.tags))
  /\ UNCHANGED <<pureCall, ctor, supplied, config, accessToken, tokenExpiry,
                 now, active, remote, book, issued, issuedExpiry, opBad>>

\* The operations explored together with getAllEntitlements.
NextAll ==
  \/ \E c \in OpConfigs : Construct(c)
  \/ \E p \in AllProcs :
       \/ \E r \in TokenResponses : AuthenticateAppResponse(p, r)
       \/ \E r \in CrmResponses(p, pend[p].req) : GatewayResponse(p, r)
       \/ GatewayAfterReauth(p)
       \/ \E r \in CrmResponses(p, pend[p].req) : GatewayRetryResponse(p, r)
       \/ \E parse \in {"object", "throws"} : FindContactByEmailResume(p, parse)
       \/ \E parse \in {"object", "throws"} : GetContactTagsWithDetailsResume(p, parse)
       \/ StartGetUserEntitlements(p, "a@x")
       \/ GetUserEntitlementsResume(p)
       \/ \E parse \in {"object", "throws"} : GetContactsResume(p, parse)
       \/ GetAllContactsResume(p)
       \/ \E l \in {<<>>, <<1>>}, i \in {<<>>, <<TRUE>>} :
            StartGetAllEntitlements(p, l, i)
       \/ GetAllEntitlementsResume(p)

\* The remote collection is any of Books, and stays as it is.
InitAll == InitClient /\ pureCall = NoCall /\ book \in Books

SpecAll == InitAll /\ [][NextAll]_vars

\* --------------------------------------------------------------- getAllTags
TagPageLimit == 1000

\* Sizes of the tag collection: around every multiple of the page size.
TagCounts ==
  {k * TagPageLimit + r : k \in 0 .. MaxPages, r \in {0, 1, TagPageLimit - 1}}

\* for (const tag of tags) tagMap.set(tag.id, tag.name), for the tags lo ..
\* hi of the page: a later tag replaces an earlier one with the same id.
RECURSIVE SetTags(_, _, _)
SetTags(tags, lo, hi) ==
  IF lo > hi THEN <<>>
  ELSE IF lo = hi THEN tags[lo].id :> tags[lo].name
  ELSE LET mid == (lo + hi) \div 2
       IN SetTags(tags, mid + 1, hi) @@ SetTags(tags, lo, mid)

TagMapV(tagMap, offsets) == [t |-> "tagMap", tagMap |-> tagMap, offsets |-> offsets]

\* Mutant of MoreTags: the loop goes on after every page that is not empty.
MoreTagsMutant(len, limit) == len > 0

\* hasMore = tags.length === limit
MoreTags(len, limit) == len = limit

getAllTags ==
  LET c == ensureAuthenticated(accessToken)
  IN Called(<<[Frame("getAllTags", "ensure") EXCEPT
                 !.offset = 0, !.limit = TagPageLimit, !.hasMore = TRUE]>>
              \o c.frames, c.pend)

StartGetAllTags(p, n) ==
  /\ CanStart(p)
  /\ Begin(p, getAllTags, n)
  /\ ghost' = SetP(ghost, p, NewGhost)
  /\ UNCHANGED <<pureCall, ctor, supplied, config, accessToken, tokenExpiry,
                 now, active, book, issued, issuedExpiry>>

\* The while loop up to the await of the page at f.offset, or the return.
TagsLoop(p, f) ==
  IF f.hasMore
    THEN LET c == makeAuthenticatedRequest(
                    CrmRequest("/tags", "", f.limit, f.offset, 0))
         IN /\ Suspend(p, Called(<<[f EXCEPT !.pc = "page",
                                       !.offsets = Append(@, f.offset)]>>
                                   \o c.frames, c.pend))
            /\ ghost' = SetP(ghost, p, CountSend(ghost[p], c.pend))
    ELSE /\ Finish(p, Ret(TagMapV(f.tagMap, f.offsets)))
         /\ UNCHANGED ghost

GetAllTagsResume(p, parse) ==
  /\ Resumed(p, "getAllTags")
  /\ LET f == Top(p) IN
     IF f.pc = "ensure"
       THEN IF pend[p].k = "throw"
              THEN /\ Finish(p, Throw(pend[p].e))
                   /\ ghost' = SetP(ghost, p, NoteEnsure(ghost[p], pend[p]))
              ELSE TagsLoop(p, f)
     ELSE /\ f.pc = "page"
          /\ IF pend[p].k = "throw"
               THEN Finish(p, Throw(pend[p].e)) /\ UNCHANGED ghost
               ELSE /\ parse \in ParseOutcomes(pend[p].v)
                    /\ IF parse = "throws"
                         THEN Finish(p, Throw(Err("syntax", 0))) /\ UNCHANGED ghost
                         ELSE LET tags == DataTags(pend[p].v)
                              IN TagsLoop(p, [f EXCEPT
                                   !.tagMap = SetTags(tags, 1, Len(tags)) @@ @,
                                   !.offset = @ + Len(tags),
                                   !.hasMore = MoreTags(Len(tags), f.limit)])
  /\ UNCHANGED <<pureCall, ctor, supplied, config, accessToken, tokenExpiry,
                 now, active, remote, book, issued, issuedExpiry, opBad>>

\* getAllTags explored on its own, over tag collections of every size of
\* TagCounts.
NextTags ==
  \/ \E c \in OpConfigs : Construct(c)
  \/ \E p \in AllProcs :
       \/ \E r \in TokenResponses : AuthenticateAppResponse(p, r)
       \/ \E r \in CrmResponses(p, pend[p].req) : GatewayResponse(p, r)
       \/ GatewayAfterReauth(p)
       \/ \E r \in CrmResponses(p, pend[p].req) : GatewayRetryResponse(p, r)
       \/ \E n \in TagCounts : StartGetAllTags(p, n)
       \/ \E parse \in {"object", "throws"} : GetAllTagsResume(p, parse)

SpecTags == Init /\ [][NextTags]_vars

\* -------------------------------------------------------- formatContactName
\* Strings the helpers work on are sequences of characters.  An optional
\* field is <<>> when it is absent and <<s>> when it holds the string s.
WhiteSpace == {" ", "\t"}
Unknown == <<"U", "n", "k", "n", "o", "w", "n">>

RECURSIVE TrimStart(_)
TrimStart(str) ==
  IF str # <<>> /\ Head(str) \in WhiteSpace THEN TrimStart(Tail(str)) ELSE str

RECURSIVE TrimEnd(_)
TrimEnd(str) ==
  IF str # <<>> /\ str[Len(str)] \in WhiteSpace
    THEN TrimEnd(SubSeq(str, 1, Len(str) - 1))
    ELSE str

\* Mutant of Trim: the string is left as it is.
TrimMutant(str) == str

\* String.prototype.trim
Trim(str) == TrimEnd(TrimStart(str))

\* x || '' for an optional string x
OrEmpty(opt) == IF opt = <<>> THEN <<>> ELSE opt[1]

\* `${firstName} ${lastName}`.trim() || 'Unknown'
formatContactName(contact) ==
  LET firstName == OrEmpty(contact.given_name)
      lastName == OrEmpty(contact.family_name)
      full == Trim(firstName \o <<" ">> \o lastName)
  IN IF full = <<>> THEN Unknown ELSE full

Jane == <<"J", "a", "n", "e">>
Doe == <<"D", "o", "e">>

\* The names explored: empty, plain, with white space around and inside,
\* and white space alone.
GivenNames ==
  {<<>>, Jane, <<" ">> \o Jane, Jane \o <<" ">>, <<" ">>, <<"\t">>}
FamilyNames ==
  {<<>>, Doe, <<" ">> \o Doe, Doe \o <<"\t">>, <<" ">>, <<"V", "a", "n", " ">> \o Doe,
   <<" ", " ">>}
Optional(S) == {<<>>} \cup {<<x>> : x \in S}

NameCalls ==
  {[fn |-> "formatContactName",
    arg |-> [given_name |-> g, family_name |-> f], out |-> <<>>,
    done |-> FALSE] : g \in Optional(GivenNames), f \in Optional(FamilyNames)}

InitName == InitClient /\ pureCall \in NameCalls /\ book = <<>>

\* this.formatContactName(contact)
FormatContactName ==
  /\ pureCall.fn = "formatContactName"
  /\ ~pureCall.done
  /\ pureCall' = [pureCall EXCEPT !.out = formatContactName(pureCall.arg),
                                  !.done = TRUE]
  /\ UNCHANGED <<ctor, supplied, config, accessToken, tokenExpiry, now, active,
                 stack, pend, remote, book, result, issued, issuedExpiry, ghost, opBad>>

SpecName == InitName /\ [][FormatContactName]_vars

\* ---------------------------------------------------------------- long runs
SecondsPerDay == 24 * 60 * 60

\* Date.now() a day later, with no operation in progress.
ElapseDay ==
  /\ now < MaxDays * SecondsPerDay
  /\ \A p \in active : pend[p].k = "idle"
  /\ now' = now + SecondsPerDay
  /\ UNCHANGED <<pureCall, ctor, supplied, config, accessToken, tokenExpiry,
                 active, stack, pend, remote, book, result, issued, issuedExpiry, ghost,
                 opBad>>

\* A client that is constructed at some time and then kept for MaxDays days.
NextClock ==
  \/ \E c \in OpConfigs : Construct(c)
  \/ ElapseDay

SpecClock == Init /\ [][NextClock]_vars

\* ------------------------------------------------------------- two callers
\* Caller p may take a step: no other caller has a frame whose awaited
\* promise is settled.  Callers interleave at the awaits of the network;
\* between two of them a caller runs without interruption.
Turn(p) == \A q \in active \ {p} : pend[q].k \notin {"ret", "throw"}

\* Two callers use getUserEntitlements on one client.
NextTwo ==
  \/ \E c \in OpConfigs : Construct(c)
  \/ Tick
  \/ \E p \in AllProcs :
       /\ Turn(p)
       /\ \/ \E r \in TokenResponses : AuthenticateAppResponse(p, r)
          \/ \E r \in CrmResponses(p, pend[p].req) : GatewayResponse(p, r)
          \/ GatewayAfterReauth(p)
          \/ \E r \in CrmResponses(p, pend[p].req) : GatewayRetryResponse(p, r)
          \/ \E parse \in {"object", "throws"} : FindContactByEmailResume(p, parse)
          \/ \E parse \in {"object", "throws"} :
               GetContactTagsWithDetailsResume(p, parse)
          \/ StartGetUserEntitlements(p, "a@x")
          \/ GetUserEntitlementsResume(p)

InitTwo == InitWith({1, 2}) /\ pureCall = NoCall /\ book = <<>>

SpecTwo == InitTwo /\ [][NextTwo]_vars

NextCtor == \E c \in Configs : Construct(c)

SpecCtor == Init /\ [][NextCtor]_vars

Next ==
  \/ \E c \in OpConfigs : Construct(c)
  \/ Tick
  \/ \E p \in AllProcs :
       \/ \E r \in TokenResponses : AuthenticateAppResponse(p, r)
       \/ \E r \in CrmResponses(p, pend[p].req) : GatewayResponse(p, r)
       \/ GatewayAfterReauth(p)
       \/ \E r \in CrmResponses(p, pend[p].req) : GatewayRetryResponse(p, r)
       \/ \E parse \in {"object", "throws"} : FindContactByEmailResume(p, parse)
       \/ \E parse \in {"object", "throws"} : GetContactTagsWithDetailsResume(p, parse)
       \/ \E e \in Emails : StartGetUserEntitlements(p, e)
       \/ GetUserEntitlementsResume(p)
       \/ \E id \in ContactIds : StartGetContactById(p, id)
       \/ GetContactByIdResume(p)
       \/ \E es \in EmailLists : StartGetBatchEntitlements(p, es)
       \/ GetBatchEntitlementsResume(p)
       \/ \E l \in {<<1>>, <<>>}, o \in {<<>>, <<1>>}, n \in 0 .. MaxContacts :
            StartGetContacts(p, l, o, n)
       \/ \E parse \in {"object", "throws"} : GetContactsResume(p, parse)
       \/ \E b \in 1 .. MaxBatchSize, n \in 0 .. MaxContacts :
            StartFetchAllContactsPaginated(p, <<b>>, n)
       \/ FetchAllContactsPaginatedResume(p)
       \/ FetchAllContactsPaginatedNext(p)

Spec == Init /\ [][Next]_vars

\* ================================================================ properties
Callers == active

\* The entry of the batch that the single-user call finished last produced.
LastEntry(v) == v.results[Len(v.results)]

\* C1: a client whose environment is 'production' (given or by default) has
\* allowWrite false whatever the caller supplied, and getStatus() reports
\* readOnlyMode, in every state after construction: no operation changes it.
C1_ProductionIsReadOnly ==
  (ctor = "ok" /\ config.environment = "production")
    => (config.allowWrite = "false" /\ getStatus.readOnlyMode)

\* C1 witness: a production client constructed with allowWrite: true has
\* finished an operation.
C1_Witness ==
  /\ ctor = "ok"
  /\ supplied.environment = "production"
  /\ supplied.allowWrite = "true"
  /\ result[1].op = "getUserEntitlements"
  /\ result[1].k = "ret"

\* A credential counts as supplied when it is a non-empty string.
Supplied(v) == v \notin {Absent, Undefined, ""}

\* C2: new KeapClient(c) throws exactly when c supplies no serviceAccountToken
\* and lacks clientId or clientSecret; it then leaves no client behind and
\* has sent nothing.  A serviceAccountToken alone and a clientId+clientSecret
\* pair alone are accepted.
C2_ConstructorRejectsExactly ==
  ctor # "none" =>
    /\ (ctor = "threw") <=>
         (/\ ~Supplied(supplied.serviceAccountToken)
          /\ (~Supplied(supplied.clientId) \/ ~Supplied(supplied.clientSecret)))
    /\ ctor = "threw" =>
         /\ config = NoConfig
         /\ accessToken = Null
         /\ tokenExpiry = NoExpiry
         /\ \A p \in AllProcs : pend[p].k = "idle" /\ stack[p] = <<>>

\* C2 witness: a clientId without a clientSecret (and no serviceAccountToken)
\* was refused.
C2_Witness ==
  /\ ctor = "threw"
  /\ supplied.serviceAccountToken = Absent
  /\ supplied.clientId = "v"
  /\ supplied.clientSecret = Absent

\* A call of the gateway has just finished for p, all its requests answered.
GatewayFinished(p) == pend[p].k \in {"ret", "throw"} /\ pend[p].gw.nCrm > 0

\* C3 as stated: a gateway call whose first response is a 401 makes, in OAuth
\* mode, exactly one token request and exactly one retried CRM request; in
\* service-account mode no token request and no retry, and it fails with an
\* error carrying the status.
C3_Original ==
  \A p \in Callers :
    (GatewayFinished(p) /\ pend[p].gw.first401) =>
      IF pend[p].gw.service
        THEN /\ pend[p].gw.nTok = 0
             /\ pend[p].gw.nCrm = 1
             /\ pend[p].k = "throw"
             /\ pend[p].e.status = 401
        ELSE /\ pend[p].gw.nTok = 1
             /\ pend[p].gw.nCrm = 2

\* C3 amended: a gateway call whose first response is a 401 makes, in OAuth
\* mode, exactly one token request, and exactly one retried CRM request when
\* that re-authentication succeeds and none when it fails; in service-account
\* mode no token request and no retry, and it fails with an error carrying
\* the status.
C3_OneReauthOneRetry ==
  \A p \in Callers :
    (GatewayFinished(p) /\ pend[p].gw.first401) =>
      IF pend[p].gw.service
        THEN /\ pend[p].gw.nTok = 0
             /\ pend[p].gw.nCrm = 1
             /\ pend[p].k = "throw"
             /\ pend[p].e.status = 401
        ELSE /\ pend[p].gw.nTok = 1
             /\ pend[p].gw.nCrm = IF pend[p].gw.reauthOk THEN 2 ELSE 1

\* C3 witness: an OAuth-mode gateway call has finished after a 401, a
\* re-authentication and a retried request.
C3_Witness ==
  /\ GatewayFinished(1)
  /\ pend[1].gw.first401
  /\ ~pend[1].gw.service
  /\ pend[1].gw.reauthOk

\* C4: whatever the gateway returns to its caller is a 2xx response; every
\* other answer, also to the request retried after a 401, ends the call in
\* an error.
C4_GatewayReturnsOnlySuccess ==
  \A p \in Callers :
    (GatewayFinished(p) /\ pend[p].k = "ret") => Ok(pend[p].v.status)

\* The entry of an authentication failure in what p reports.
AuthFailureSurfaced(p, status) ==
  \/ pend[p].k = "throw" /\ pend[p].e = Err("auth", status)
  \/ /\ pend[p].k = "idle"
     /\ result[p].k = "throw"
     /\ result[p].e = Err("auth", status)
  \/ /\ pend[p].k = "idle"
     /\ result[p].op = "getBatchEntitlements"
     /\ LastEntry(result[p].v).entitlements.t = "null"
     /\ LastEntry(result[p].v).error = Err("auth", status)

\* C5: in OAuth mode with a single caller, every request to the CRM carries a
\* bearer token that is not null and is the access_token of the latest
\* successful token response; and when the token endpoint answers non-2xx to
\* the ensureAuthenticated that opens an operation (for a batch: the
\* resolution of one email), the operation fails with the authentication
\* error carrying that status and sends no CRM request.
C5_CredentialBeforeRequest ==
  (ctor = "ok" /\ ~ServiceMode) =>
    \A p \in Callers :
      /\ SendsCrm(pend[p]) =>
           /\ Truthy(pend[p].req.bearer)
           /\ pend[p].req.bearer = issued
      /\ ghost[p].ensureFail # 0 =>
           /\ ~Ok(ghost[p].ensureFail)
           /\ ghost[p].crmSent = 0
           /\ AuthFailureSurfaced(p, ghost[p].ensureFail)

\* C5 witness: in OAuth mode the first email of a batch failed on a refused
\* token request, and the request for the second email is in flight.
C5_Witness ==
  /\ ~ServiceMode
  /\ SendsCrm(pend[1])
  /\ stack[1][1].fn = "getBatchEntitlements"
  /\ Len(stack[1][1].results) = 1
  /\ stack[1][1].results[1].error.type = "auth"

\* C6: once the CRM has answered the contact lookup of getUserEntitlements
\* with a 2xx response holding no contact, the call returns null: it raises
\* no error and sends no tag request.
C6_NotFoundIsNull ==
  \A p \in Callers :
    ghost[p].miss =>
      /\ ~SendsCrm(pend[p])
      /\ \A i \in DOMAIN stack[p] : stack[p][i].fn # "getContactTagsWithDetails"
      /\ pend[p].k \in {"ret", "idle"}
      /\ pend[p].k = "ret" => pend[p].v.t = "null"
      /\ pend[p].k = "idle" =>
           /\ result[p].k = "ret"
           /\ result[p].v.t \in {"null", "batch"}
           /\ result[p].v.t = "batch" =>
                /\ LastEntry(result[p].v).entitlements.t = "null"
                /\ LastEntry(result[p].v).error = NoErr

\* C6 witness: getUserEntitlements has returned null after a lookup that
\* found no contact.
C6_Witness ==
  /\ ghost[1].miss
  /\ pend[1].k = "idle"
  /\ result[1].op = "getUserEntitlements"
  /\ result[1].v.t = "null"

\* The number of entries of a batch result that satisfy P.
CountEntries(results, P(_)) == Cardinality({i \in DOMAIN results : P(results[i])})
IsFound(x) == x.entitlements.t = "ent"
IsNotFound(x) == x.entitlements.t = "null" /\ x.error = NoErr
IsErrored(x) == x.error # NoErr

\* C7: getBatchEntitlements over N emails never fails; it returns N entries,
\* summary.total = N, and found + not-found + errors = N, where found and
\* errors are the summary's counts and not-found counts the entries with
\* null entitlements and no error; an entry with an error has null
\* entitlements, and the batch went on after it.
C7_BatchAccounting ==
  \A p \in Callers :
    /\ (Running(p) /\ stack[p][1].fn = "getBatchEntitlements") =>
         Len(stack[p][1].results) < Len(stack[p][1].emails)
    /\ (pend[p].k = "idle" /\ result[p].op = "getBatchEntitlements") =>
         LET v == result[p].v
             n == Len(v.request)
         IN /\ result[p].k = "ret"
            /\ Len(v.results) = n
            /\ v.summary.total = n
            /\ v.summary.found = CountEntries(v.results, IsFound)
            /\ v.summary.errors = CountEntries(v.results, IsErrored)
            /\ v.summary.found + CountEntries(v.results, IsNotFound)
                 + v.summary.errors = n
            /\ \A i \in DOMAIN v.results :
                 IsErrored(v.results[i]) => v.results[i].entitlements.t = "null"

\* C7 witness: a batch of two emails has finished whose first email failed
\* on authentication and whose second email was not found.
C7_Witness ==
  /\ pend[1].k = "idle"
  /\ result[1].op = "getBatchEntitlements"
  /\ Len(result[1].v.results) = 2
  /\ result[1].v.results[1].error.type = "auth"
  /\ IsNotFound(result[1].v.results[2])

\* C8: fetchAllContactsPaginated with batch size B, consumed to the end over
\* a stable collection of N = kB + r contacts (0 <= r < B) whose every request
\* was answered successfully, ends normally having yielded k batches of B
\* contacts and, when r > 0, one last batch of r; it requested the offsets
\* 0, B, ..., kB in this order, and batch i holds contacts (i-1)B+1 ...: the
\* batches together are the collection, every contact once.  No batch that
\* is yielded is ever empty.
C8_PaginationBatches ==
  \A p \in Callers :
    /\ pend[p].k = "yield" => pend[p].v.contacts # <<>>
    /\ (pend[p].k = "idle" /\ result[p].op = "fetchAllContactsPaginated"
          /\ ~opBad[p]) =>
         LET v == result[p].v
             B == v.batchSize
             N == remote[p]
             k == N \div B
             r == N % B
         IN /\ result[p].k = "ret"
            /\ Len(v.yielded) = k + (IF r > 0 THEN 1 ELSE 0)
            /\ \A i \in 1 .. k : Len(v.yielded[i]) = B
            /\ r > 0 => Len(v.yielded[k + 1]) = r
            /\ \A i \in DOMAIN v.yielded : v.yielded[i] # <<>>
            /\ v.offsets = [i \in 1 .. k + 1 |-> (i - 1) * B]
            /\ \A i \in DOMAIN v.yielded : \A j \in DOMAIN v.yielded[i] :
                 v.yielded[i][j] = (i - 1) * B + j

\* C8 witness: a collection of exactly two full batches has been consumed to
\* the end.
C8_Witness ==
  /\ pend[1].k = "idle"
  /\ result[1].op = "fetchAllContactsPaginated"
  /\ ~opBad[1]
  /\ result[1].k = "ret"
  /\ result[1].v.batchSize = 2
  /\ remote[1] = 4
  /\ Len(result[1].v.yielded) = 2

\* C9: a credential is expired exactly when no expiry is stored or the expiry
\* is at or before now + 5 minutes; isAuthenticated() holds exactly when a
\* token is held and it is not expired in this sense (so a token expiring in
\* 5 minutes and 1 second counts as valid, one expiring in 5 minutes or less
\* does not); and in OAuth mode a function that starts with no credential or
\* an expired one has obtained a new token before any of its CRM requests.
C9_ExpiryBuffer ==
  ctor = "ok" =>
    /\ isTokenExpired(tokenExpiry, now) <=>
         (tokenExpiry = NoExpiry \/ tokenExpiry - now <= 300)
    /\ isAuthenticated <=>
         (/\ accessToken # Null
          /\ tokenExpiry # NoExpiry
          /\ tokenExpiry - now >= 301)
    /\ ~ServiceMode =>
         \A p \in Callers :
           (SendsCrm(pend[p]) /\ ghost[p].cred # "valid") => ghost[p].fresh

\* C9 witness: a function that started with a token within five minutes of
\* its expiry has a CRM request in flight, and the token held now expires in
\* 5 minutes and 1 second.
C9_Witness ==
  /\ ~ServiceMode
  /\ SendsCrm(pend[1])
  /\ ghost[1].cred = "expired"
  /\ tokenExpiry - now = 301
  /\ isAuthenticated

\* C10: a client configured with a service-account token never sends a
\* token request, never changes or clears its access token, and sends every
\* CRM request with exactly that token as bearer, whatever the remote
\* answers.
C10_ServiceTokenPermanent ==
  (ctor = "ok" /\ ServiceMode) =>
    /\ accessToken = config.serviceAccountToken
    /\ issued = Null
    /\ \A p \in Callers :
         /\ pend[p].req.kind # "token"
         /\ \A i \in DOMAIN stack[p] : stack[p][i].fn # "authenticateApp"
         /\ SendsCrm(pend[p]) => pend[p].req.bearer = config.serviceAccountToken

\* C10 witness: a service-account client whose first email of a batch was
\* answered 401 has the request for the second email in flight.
C10_Witness ==
  /\ ServiceMode
  /\ SendsCrm(pend[1])
  /\ stack[1][1].fn = "getBatchEntitlements"
  /\ Len(stack[1][1].results) = 1
  /\ stack[1][1].results[1].error = Err("svc", 401)

\* C11: in OAuth mode, an operation other than getBatchEntitlements during
\* which the token endpoint rejected a token request (the one of its opening
\* ensureAuthenticated or the one of a re-authentication after a 401) ends
\* with an error, never with a normal result.
C11_AuthFailureSurfaces ==
  (ctor = "ok" /\ ~ServiceMode) =>
    \A p \in Callers :
      (/\ pend[p].k = "idle"
       /\ result[p].op \notin {"none", "getBatchEntitlements"}
       /\ ghost[p].rejected) => result[p].k = "throw"

C13_ReadOnlyRequests ==
  ctor = "ok" =>
    \A p \in Callers :
      pend[p].k = "net" =>
        /\ pend[p].req.kind = "crm" =>
             /\ pend[p].req.url = config.baseUrl
             /\ pend[p].req.method = "GET"
             /\ pend[p].req.body = Absent
        /\ pend[p].req.method # "GET" =>
             /\ pend[p].req.kind = "token"
             /\ pend[p].req.url = TokenUrl
             /\ pend[p].req.method = "POST"

\* C13 witness: a client constructed for development with allowWrite: true
\* has the request of a lookup by contact id (made without a method option)
\* in flight.
C13_Witness ==
  /\ ctor = "ok"
  /\ config.environment = "development"
  /\ config.allowWrite = "true"
  /\ SendsCrm(pend[1])
  /\ pend[1].req.path = "/contacts/{id}"

\* A name that is present: not empty, no white space at either end.
Present(opt) ==
  /\ opt # <<>>
  /\ opt[1] # <<>>
  /\ Head(opt[1]) \notin WhiteSpace
  /\ opt[1][Len(opt[1])] \notin WhiteSpace
\* A name that is absent or empty.
Missing(opt) == opt = <<>> \/ opt[1] = <<>>

\* C14: formatContactName gives "given family", the two joined by exactly
\* one space, when both names are present; the given name alone, with no
\* trailing space, when only it is present; the family name alone, with no
\* leading space, when only it is present; "Unknown" when both are absent or
\* empty.  Whatever the names hold, the result is not empty and has no white
\* space at either end.
C14_NameFormatting ==
  (pureCall.fn = "formatContactName" /\ pureCall.done) =>
    LET g == pureCall.arg.given_name
        f == pureCall.arg.family_name
        out == pureCall.out
    IN /\ (Present(g) /\ Present(f)) => out = g[1] \o <<" ">> \o f[1]
       /\ (Present(g) /\ Missing(f)) => out = g[1]
       /\ (Missing(g) /\ Present(f)) => out = f[1]
       /\ (Missing(g) /\ Missing(f)) => out = Unknown
       /\ out # <<>>
       /\ Head(out) \notin WhiteSpace
       /\ out[Len(out)] \notin WhiteSpace

\* C14 witness: the name of a contact with given name "Jane" and no family
\* name has been formatted.
C14_Witness ==
  /\ pureCall.fn = "formatContactName"
  /\ pureCall.done
  /\ pureCall.arg.given_name = <<Jane>>
  /\ pureCall.arg.family_name = <<>>
  /\ pureCall.out = Jane

\* C15: getBatchEntitlements resolves its emails one at a time and in input
\* order: while it runs, the entries it holds are those of the first emails
\* of the input, in order, the one single-user resolution in progress is
\* that of the next email, and every contact lookup in flight asks for that
\* email; when it has finished, entry i is that of input email i, also when
\* the input holds an email twice.
C15_BatchInOrder ==
  \A p \in Callers :
    /\ (Running(p) /\ stack[p][1].fn = "getBatchEntitlements") =>
         LET f == stack[p][1]
             i == Len(f.results) + 1
         IN /\ i <= Len(f.emails)
            /\ \A j \in DOMAIN f.results : f.results[j].email = f.emails[j]
            /\ \A j \in 2 .. Len(stack[p]) :
                 /\ stack[p][j].fn # "getBatchEntitlements"
                 /\ stack[p][j].fn = "getUserEntitlements" =>
                      j = 2 /\ stack[p][j].email = f.emails[i]
            /\ Len(stack[p]) >= 2 => stack[p][2].fn = "getUserEntitlements"
            /\ (SendsCrm(pend[p]) /\ pend[p].req.path = "/contacts") =>
                 pend[p].req.email = f.emails[i]
    /\ (pend[p].k = "idle" /\ result[p].op = "getBatchEntitlements") =>
         /\ Len(result[p].v.results) = Len(result[p].v.request)
         /\ \A j \in DOMAIN result[p].v.results :
              result[p].v.results[j].email = result[p].v.request[j]

\* C15 witness: the batch over a@x, a@x has finished with two entries, the
\* first not found and the second found.
C15_Witness ==
  /\ pend[1].k = "idle"
  /\ result[1].op = "getBatchEntitlements"
  /\ result[1].v.request = <<"a@x", "a@x">>
  /\ Len(result[1].v.results) = 2
  /\ IsNotFound(result[1].v.results[1])
  /\ IsFound(result[1].v.results[2])

\* The tag request that caller p's getContactTagsWithDetails waited for has
\* failed: the gateway threw, or handed on a response that is not 2xx.
TagRequestFailed(p) ==
  /\ Resumed(p, "getContactTagsWithDetails")
  /\ pend[p].k = "throw" \/ ~Ok(pend[p].v.status)

\* Caller p's operation `fn` resumes with the tags of a contact whose tag
\* request failed.
ResumesAfterTagFailure(p, fn) ==
  /\ Resumed(p, fn)
  /\ Top(p).pc = "tags"
  /\ ghost[p].tagFail

SelectedEmail(contact) ==
  LET ea == contact.email_addresses
      P == {i \in DOMAIN ea : ea[i].field = "EMAIL1"}
  IN IF ea = <<>> THEN ""
     ELSE IF P = {} THEN ea[1].email
     ELSE ea[CHOOSE i \in P : \A j \in P : i <= j].email

\* The tag names found in the entries of a bulk result.
NamesIn(entitlements) == UNION {Range(entitlements[i].tags) : i \in DOMAIN entitlements}

\* C18: getAllEntitlements with limit L over a collection of N contacts
\* returns totalContacts = min(L, N), and every result has contactsWithTags
\* <= entitlements.length <= totalContacts, lists in availableEntitlements
\* the tag names of the contacts it processed, sorted and without
\* duplicates, with totalUniqueEntitlements their number, and without
\* includeContactsWithoutTags holds only entries with a tag, contactsWithTags
\* of them.
C18_BulkSummary ==
  \A p \in Callers :
    (pend[p].k = "idle" /\ result[p].op = "getAllEntitlements"
       /\ result[p].k = "ret") =>
      LET v == result[p].v
          ents == v.entitlements
          avail == v.availableEntitlements
      IN /\ v.summary.totalContacts = Min(v.limit, Len(book))
         /\ v.summary.contactsWithTags <= Len(ents)
         /\ Len(ents) <= v.summary.totalContacts
         /\ avail \in {<<>>, <<"gold">>, <<"silver">>, <<"gold", "silver">>}
         /\ Range(avail) = NamesIn(ents)
         /\ v.summary.totalUniqueEntitlements = Len(avail)
         /\ ~v.include =>
              /\ \A i \in DOMAIN ents : Len(ents[i].tags) >= 1
              /\ v.summary.contactsWithTags = Len(ents)

\* The contacts, among the first m of the collection, that the bulk path
\* returns an entry for when every tag request is answered successfully.
Returned(m, include) ==
  SelectSeq([i \in 1 .. m |-> i],
            LAMBDA i : /\ SelectedEmail(book[i]) # ""
                       /\ book[i].tags # <<>> \/ include)

\* C19: in getAllEntitlements every entry, returned or collected so far,
\* reports for its contact the email of the first EMAIL1 entry if there is
\* one, else of the first entry, and this email is not empty; a tag request
\* is only made for a contact with such an email; and when every request was
\* answered successfully, the entries are exactly those of the listed
\* contacts that have one (and a tag, unless includeContactsWithoutTags), in
\* the order of the listing.
C19_PrimaryEmail ==
  \A p \in Callers :
    /\ (stack[p] # <<>> /\ stack[p][1].fn = "getAllEntitlements") =>
         /\ \A i \in DOMAIN stack[p][1].results :
              LET e == stack[p][1].results[i]
              IN /\ e.email = SelectedEmail(book[e.contactId])
                 /\ e.email # ""
         /\ \A i \in DOMAIN stack[p] :
              stack[p][i].fn = "getContactTagsWithDetails" =>
                /\ book[stack[p][i].contact].email_addresses # <<>>
                /\ SelectedEmail(book[stack[p][i].contact]) # ""
    /\ (pend[p].k = "idle" /\ result[p].op = "getAllEntitlements"
          /\ result[p].k = "ret") =>
         LET v == result[p].v
             ids == Returned(v.summary.totalContacts, v.include)
         IN /\ \A i \in DOMAIN v.entitlements :
                 LET e == v.entitlements[i]
                 IN /\ e.email = SelectedEmail(book[e.contactId])
                    /\ e.email # ""
            /\ ~opBad[p] =>
                 /\ Len(v.entitlements) = Len(ids)
                 /\ \A i \in DOMAIN ids : v.entitlements[i].contactId = ids[i]

\* C19 witness: of two contacts, the first one, whose EMAIL1 entry is empty,
\* got no entry, and the second one, whose first EMAIL1 entry is its second
\* entry, is reported with the email of that entry.
C19_Witness ==
  /\ pend[1].k = "idle"
  /\ result[1].op = "getAllEntitlements"
  /\ result[1].k = "ret"
  /\ result[1].v.summary.totalContacts = 2
  /\ book[1].email_addresses # <<>>
  /\ book[1].email_addresses[1] = EmailEntry("", "EMAIL1")
  /\ Len(book[2].email_addresses) = 3
  /\ Len(result[1].v.entitlements) = 1
  /\ result[1].v.entitlements[1].contactId = 2
  /\ result[1].v.entitlements[1].email = "c@x"

\* The ids of the first n tags of the collection.
TagIds(n) == {TagIdBase + i : i \in 1 .. n}

C20_ServiceNeverExpired ==
  (ctor = "ok" /\ ServiceMode) =>
    /\ isAuthenticated
    /\ getStatus.authenticated

\* C21: getUserEntitlements returns null only when the CRM answered its
\* contact lookup with a 2xx response holding no contact, whatever the
\* responses before (a 401, a re-authentication and a retried request
\* answered with an error status among them).
C21_NotFoundOnlyOnMiss ==
  \A p \in Callers :
    (/\ pend[p].k = "idle"
     /\ result[p].op = "getUserEntitlements"
     /\ result[p].k = "ret"
     /\ result[p].v.t = "null") => ghost[p].miss

\* C22: with two callers on one client with client credentials, no CRM
\* request is sent with a null bearer, and no frame of an operation is
\* handed the 'Not authenticated' error of the gateway: neither the
\* operation fails with it nor its tag fetch turns it into an empty list.
C22_RaceIsBenign ==
  \A p \in Callers :
    /\ SendsCrm(pend[p]) => Truthy(pend[p].req.bearer)
    /\ pend[p].k = "throw" => pend[p].e.type # "notauth"
    /\ (pend[p].k = "idle" /\ result[p].k = "throw") =>
         result[p].e.type # "notauth"

\* C23: whenever an access token is stored, the stored expiry is the one of
\* the same grant: with client credentials, token and expiry are those of
\* the token response received last (its access_token, and the time of its
\* receipt plus its expires_in); with a service-account token, they are the
\* configured token and the expiry the constructor computed, and no token
\* response was ever received.
C23_CredentialConsistent ==
  (ctor = "ok" /\ accessToken # Null) =>
    IF ServiceMode
      THEN /\ accessToken = config.serviceAccountToken
           /\ tokenExpiry - ServiceTokenLifetime \in 0 .. now
           /\ issued = Null
      ELSE /\ accessToken = issued
           /\ tokenExpiry = issuedExpiry
           /\ tokenExpiry - now \in {x - d : x \in ExpiresIn, d \in 0 .. now}

\* C23 witness: the retried request of caller 1 is in flight with the token
\* of its own refresh after a 401, and the client holds another token, which
\* the running operation of caller 2 obtained and stored after it.
C23_Witness ==
  /\ ~ServiceMode
  /\ SendsCrm(pend[1])
  /\ Top(1).pc = "retry"
  /\ ghost[2].fresh
  /\ stack[2] # <<>>
  /\ accessToken # Null
  /\ pend[1].req.bearer # accessToken

\* Caller p waits for the answer to a token request.
AwaitsToken(p) == pend[p].k = "net" /\ pend[p].req.kind = "token"

\* The token request that caller p waits for was sent for one of the two
\* reasons there are: by the ensureAuthenticated that opens a function which
\* found no token or an expired one, or by the gateway after a 401.
TokenRequestJustified(p) ==
  LET caller == stack[p][Len(stack[p]) - 1]
  IN /\ Top(p).fn = "authenticateApp"
     /\ Len(stack[p]) >= 2
     /\ IF caller.fn = "makeAuthenticatedRequest"
          THEN caller.pc = "reauth" /\ caller.first401
          ELSE caller.pc = "ensure" /\ ghost[p].cred \in {"none", "expired"}

\* C24: with client credentials and one caller, the constructor sends no
\* request; a token request is only sent by an operation that starts with no
\* token or with an expired one (within 5 minutes of its expiry), or after a
\* CRM request was answered 401; and over a step before and after which the
\* held token is valid, token and expiry stay as they are, no token request
\* is in flight, and a CRM request in flight carries the held token.
C24_LazyAcquisition ==
  [][~ServiceMode' =>
       /\ ctor = "none" =>
            \A p \in AllProcs : pend'[p].k = "idle" /\ stack'[p] = <<>>
       /\ \A p \in Callers : AwaitsToken(p)' => TokenRequestJustified(p)'
       /\ (isAuthenticated /\ isAuthenticated') =>
            /\ accessToken' = accessToken
            /\ tokenExpiry' = tokenExpiry
            /\ issued' = issued
            /\ \A p \in Callers :
                 /\ ~AwaitsToken(p)'
                 /\ SendsCrm(pend'[p]) => pend'[p].req.bearer = accessToken]_vars

\* C24 witness: an operation that found, when it started, a valid token
\* left by an earlier operation has a CRM request in flight with that token,
\* no token having been obtained since it started.
C24_Witness ==
  /\ ~ServiceMode
  /\ Len(stack[1]) = 2
  /\ stack[1][1].fn = "getContactById"
  /\ ghost[1].cred = "valid"
  /\ ~ghost[1].fresh
  /\ SendsCrm(pend[1])
  /\ pend[1].req.bearer = issued
  /\ isAuthenticated

\* The last operation of caller p failed with the error of a token request
\* that the token endpoint answered with a non-2xx status.
FailedAuth(p) ==
  /\ pend[p].k = "idle"
  /\ result[p].k = "throw"
  /\ result[p].e.type = "auth"

\* C25: with client credentials, an operation that failed because the token
\* endpoint rejected a token request leaves no usable token (none at all
\* when it was the re-authentication after a 401 that failed); the operation
\* started next sends a token request first, and sends no CRM request before
\* it holds a new token; and an operation all of whose requests, to the token
\* endpoint and to the CRM, are answered successfully returns a result.
C25_FailureNotLatched ==
  [][~ServiceMode' =>
       \A p \in Callers :
         /\ FailedAuth(p)' =>
              /\ ~isAuthenticated'
              /\ ghost'[p].ensureFail = 0 => accessToken' = Null
         /\ (FailedAuth(p) /\ stack'[p] # <<>>) =>
              /\ AwaitsToken(p)'
              /\ ghost'[p].cred \in {"none", "expired"}
         /\ (SendsCrm(pend'[p]) /\ ghost'[p].cred # "valid") => ghost'[p].fresh
         /\ (pend'[p].k = "idle" /\ result'[p].op # "none" /\ ~opBad'[p]) =>
              result'[p].k = "ret"]_vars

\* C25 witness: an operation has failed because the re-authentication after
\* a 401 was rejected, and the client holds no token.
C25_Witness ==
  /\ ~ServiceMode
  /\ FailedAuth(1)
  /\ ghost[1].rejected
  /\ ghost[1].ensureFail = 0
  /\ ghost[1].crmSent = 1
  /\ accessToken = Null
  /\ ~isAuthenticated

====
